---- MODULE Spec2Model ----
(***************************************************************************)
(* Job lifecycle of Reading_Pal: the backend's job record store (the       *)
(* MongoDB "books" collection), the upload handler that creates a record,  *)
(* the callback receiver (backend/api/books.py) and the periodic cleanup   *)
(* task (backend/services/cleanup_service.py).                             *)
(*                                                                         *)
(* Strings that the code builds or takes apart (paths, f-string messages)  *)
(* are sequences of fragments.  An Optional[str] that is None is the empty *)
(* sequence: every test the code makes on such a value is a truthiness     *)
(* test, which None and "" both fail, and no input below is "".            *)
(* Time is a discrete clock; the two thresholds of the cleanup task are    *)
(* expressed in clock units and keep their order (retention < timeout).    *)
(***************************************************************************)
EXTENDS Integers, Sequences, FiniteSets, TLC

\* ---------------------------------------------------------------- bounds
MaxJobs == 2
MaxTime == 3
MaxCallbacks == 2
MaxTextLen == 5
MaxRewriteTextLen == 3
MaxChunkSize == 3
MaxChunks == 2
MaxTitleLen == 3
MaxRefTextLen == 3
MaxImages == 2
MaxSweepErrors == 1

\* ------------------------------------------------------ program constants
\* cleanup_service.py:12 (default 24 h) and :13 (default 6 h), in clock units.
STUCK_JOB_THRESHOLD_SECONDS == 2
OLD_RECORD_THRESHOLD_SECONDS == 1
\* cursor.to_list(length=100), cleanup_service.py:65, scaled down so that
\* more records can qualify than one sweep takes.
ToListLength == 1
\* cursor.to_list(length=100), cleanup_service.py:100, scaled down to the
\* smallest length with which one sweep deletes more than one record.
DeleteListLength == 2
\* The chunk sizes and chunk counts the two rewrite functions pass to the
\* chunker (pdf_service/app.py:135, :139, :317, :320), scaled to short texts.
MAX_CHUNK_CHARS == 2
OLLAMA_MAX_CHUNKS == 2
MAX_CHUNK_CHARS_GEMINI == 3
GEMINI_MAX_CHUNKS == 2

None == <<>>
Truthy(x) == x # None

JobIds == 1..MaxJobs
Times == 0..MaxTime

\* ------------------------------------------------------------ job records
\* Names of uploaded files and os.path.splitext(name)[0].
FileNames == {"a.pdf", "b.pdf"}

Splitext0(name) == CASE name = "a.pdf" -> "a"
                     [] name = "b.pdf" -> "b"
                     [] name = "" -> ""

\* A document of the books collection.  The store maps _id to document; the
\* _id and the job_id of a job are in one-to-one correspondence, so the key
\* is the job number.
NewBook(j, name, st, t) ==
    [ job_id            |-> j,
      title             |-> Splitext0(name),
      original_filename |-> name,
      sanitized_title   |-> Splitext0(name),
      status            |-> st,
      markdown_filename |-> None,
      image_filenames   |-> <<>>,
      processing_error  |-> None,
      created_at        |-> t,
      updated_at        |-> t ]

\* Placeholder of the same shape, for "no document".
NoBook == NewBook(0, "", "absent", 0)

\* ------------------------------------------------------ callback payloads
PathA == <<"storage", "output", "a.md">>
PathB == <<"b.md">>
Img1 == [filename |-> "a_0.png", path |-> "/images/a_0.png"]
ImgNoName == [filename |-> "", path |-> "/images/"]

Payload(j, st, msg, fp, imgs, err) ==
    [ job_id |-> j, status |-> st, message |-> msg, file_path |-> fp,
      images |-> imgs, processing_error |-> err ]

NoPayload == Payload(0, "none", None, None, <<>>, None)

\* A completed callback with a file and images, one with another file and no
\* image, one that names no file.
CompletedPayloads ==
    { Payload(j, "completed", <<"Processing complete">>, c[1], c[2], None) :
        j \in JobIds,
        c \in { <<PathA, <<ImgNoName, Img1>>>>, <<PathB, <<>>>>, <<None, <<Img1>>>> } }

FailedPayloads ==
    { Payload(j, "failed", <<"Processing failed">>, None, <<>>, err) :
        j \in JobIds, err \in {None, <<"boom">>} }

UnexpectedStatuses == {"processing", "pending"}

UnexpectedPayloads ==
    { Payload(j, st, <<"Processing started">>, None, <<>>, None) :
        j \in JobIds, st \in UnexpectedStatuses }

Payloads == CompletedPayloads \cup FailedPayloads \cup UnexpectedPayloads

\* The status the conversion service reports for a new job, as upload_pdf
\* reads it from the service's response (books.py:137).  process_pdf of this
\* repository answers "pending"; its response model documents "processing"
\* as the other value (pdf_service/app.py:112).
InitialStatuses == {"pending", "processing"}

\* ---------------------------------------------------------- pure helpers
\* os.path.basename: the last component of a path.
Basename(path) == IF path = <<>> THEN <<>> ELSE <<path[Len(path)]>>

\* [img_info.filename for img_info in payload.images if img_info.filename]
RECURSIVE ImageFilenames(_)
ImageFilenames(imgs) ==
    IF imgs = <<>> THEN <<>>
    ELSE IF Head(imgs).filename # ""
         THEN <<Head(imgs).filename>> \o ImageFilenames(Tail(imgs))
         ELSE ImageFilenames(Tail(imgs))

\* str() of an Optional[str] inside an f-string.
Str(x) == IF x = None THEN <<"None">> ELSE x

MissingFilePathError ==
    <<"Processing reported as completed by PDF service, but no markdown file path was provided.">>

DefaultFailedError ==
    <<"Processing failed without specific error message from PDF service.">>

UnexpectedStatusError(p) ==
    <<"Received unexpected status '", p.status,
      "' from PDF service. Original message: ">> \o Str(p.message)

TimeoutError ==
    <<"Processing timed out after ", "STUCK_JOB_THRESHOLD_SECONDS",
      " seconds (based on updated_at).">>

\* CallbackUpdateData with the final branch storing the status as received.
CallbackUpdateDataKeepStatus(p, t) ==
    LET base == [status |-> p.status, updated_at |-> t]
    IN  IF p.status = "completed"
        THEN LET path == IF Truthy(p.file_path)
                         THEN [markdown_filename |-> Basename(p.file_path)]
                         ELSE [status |-> "failed",
                               processing_error |-> MissingFilePathError]
                 imgs == [image_filenames |->
                            IF p.images # <<>> THEN ImageFilenames(p.images)
                                               ELSE <<>>]
             IN  imgs @@ path @@ base
        ELSE [ processing_error  |-> IF Truthy(p.processing_error)
                                     THEN p.processing_error
                                     ELSE DefaultFailedError,
               markdown_filename |-> None,
               image_filenames   |-> <<>> ] @@ base

\* The update_data dictionary the callback handler builds from a payload.
\* f @@ g keeps f where both are defined: later assignments come first.
CallbackUpdateData(p, t) ==
    LET base == [status |-> p.status, updated_at |-> t]
    IN  IF p.status = "completed"
        THEN LET path == IF Truthy(p.file_path)
                         THEN [markdown_filename |-> Basename(p.file_path)]
                         ELSE [status |-> "failed",
                               processing_error |-> MissingFilePathError]
                 imgs == [image_filenames |->
                            IF p.images # <<>> THEN ImageFilenames(p.images)
                                               ELSE <<>>]
             IN  imgs @@ path @@ base
        ELSE IF p.status = "failed"
        THEN [ processing_error  |-> IF Truthy(p.processing_error)
                                     THEN p.processing_error
                                     ELSE DefaultFailedError,
               markdown_filename |-> None,
               image_filenames   |-> <<>> ] @@ base
        ELSE [ status            |-> "failed",
               processing_error  |-> UnexpectedStatusError(p),
               markdown_filename |-> None,
               image_filenames   |-> <<>> ] @@ base

\* SetFields with image_filenames pushed onto the stored list, not replaced.
SetFieldsPush(doc, update_data, t) ==
    LET upd == [updated_at |-> t] @@ update_data
    IN  [f \in DOMAIN doc |->
           IF f \notin DOMAIN upd THEN doc[f]
           ELSE IF f = "image_filenames" THEN doc[f] \o upd[f]
           ELSE upd[f]]

\* SetFields with the stored updated_at left as it is.
SetFieldsExceptUpdatedAt(doc, update_data, t) ==
    [f \in DOMAIN doc |->
       IF f \in DOMAIN update_data /\ f # "updated_at" THEN update_data[f] ELSE doc[f]]

\* update_one({"_id": id}, {"$set": update_data}) after update_book has set
\* update_data["updated_at"] itself: the fields named are replaced, the
\* others kept.
SetFields(doc, update_data, t) ==
    LET upd == [updated_at |-> t] @@ update_data
    IN  [f \in DOMAIN doc |-> IF f \in DOMAIN upd THEN upd[f] ELSE doc[f]]

\* update_book: the new collection, and whether a document matched.
update_book(books, id, update_data, t) ==
    IF id \in DOMAIN books
    THEN [books EXCEPT ![id] = SetFields(books[id], update_data, t)]
    ELSE books

\* StuckUpdateData with the title the loop reads for its log message written
\* back.
StuckUpdateDataRetitled(t) ==
    [status |-> "failed", processing_error |-> TimeoutError, updated_at |-> t,
     title |-> "Untitled"]

\* The timeout update of the cleanup task.
StuckUpdateData(t) ==
    [status |-> "failed", processing_error |-> TimeoutError, updated_at |-> t]

\* CallbackResponse with an unknown job id answered as an error.
CallbackResponse404(found, updated) ==
    IF ~found
    THEN [code |-> 404, message |-> "Callback received, but job_id not found or already processed."]
    ELSE IF updated
    THEN [code |-> 200, message |-> "Callback processed successfully."]
    ELSE [code |-> 200, message |-> "Callback received, but DB update failed or no changes needed."]

\* The three answers of the callback handler; all are returned with the
\* route's status_code=200.
CallbackResponse(found, updated) ==
    IF ~found
    THEN [code |-> 200, message |-> "Callback received, but job_id not found or already processed."]
    ELSE IF updated
    THEN [code |-> 200, message |-> "Callback processed successfully."]
    ELSE [code |-> 200, message |-> "Callback received, but DB update failed or no changes needed."]

NoResponse == [code |-> 0, message |-> ""]

\* get_effective_book_status_async: completed when the record names a text
\* file and that file exists, whatever the stored status.
EffectiveStatus(db_book_status, markdown_filename, markdown_dir, disk) ==
    IF Truthy(markdown_filename) /\ Truthy(markdown_dir)
       /\ (markdown_dir \o markdown_filename) \in disk
    THEN "completed"
    ELSE IF db_book_status = "failed" THEN "failed"
    ELSE IF db_book_status # "" THEN db_book_status ELSE "pending"

\* The body get_book_status_by_job_id returns for a document.
StatusResponse(job_id, book_doc, markdown_dir, disk) ==
    LET effective_status ==
            EffectiveStatus(book_doc.status, book_doc.markdown_filename, markdown_dir, disk)
    IN  [ code      |-> 200,
          job_id    |-> job_id,
          status    |-> effective_status,
          success   |-> effective_status = "completed",
          title     |-> book_doc.title,
          message   |-> IF effective_status = "completed"
                        THEN <<"Processing completed successfully.">>
                        ELSE IF effective_status = "failed"
                        THEN (IF Truthy(book_doc.processing_error)
                              THEN book_doc.processing_error
                              ELSE <<"Processing failed.">>)
                        ELSE <<"Processing status: ", effective_status, ".">>,
          file_path |-> IF effective_status = "completed"
                           /\ Truthy(book_doc.markdown_filename)
                        THEN book_doc.markdown_filename ELSE None,
          images    |-> IF effective_status = "completed"
                        THEN book_doc.image_filenames ELSE <<>> ]

\* Its answer when get_book_by_job_id finds nothing.
StatusNotFound(job_id) ==
    [code |-> 404, job_id |-> job_id, message |-> <<"Job ID ", "job_id", " not found.">>]

\* The files the delete loop of the cleanup task calls delete_file_async
\* for, given a document and the two directory settings: the text file, then
\* each image file with a non-empty name.
DeleteTargets(doc, markdown_dir, images_dir) ==
    (IF Truthy(doc.markdown_filename) /\ Truthy(markdown_dir)
     THEN {markdown_dir \o doc.markdown_filename} ELSE {})
      \cup (IF doc.image_filenames # <<>> /\ Truthy(images_dir)
           THEN { images_dir \o <<doc.image_filenames[i]>> :
                    i \in { k \in DOMAIN doc.image_filenames : doc.image_filenames[k] # "" } }
           ELSE {})

\* What one iteration of the delete loop did with the files: those it called
\* delete_file_async for, and those whose removal raised.
DeleteReport(attempted, failed) ==
    [code |-> 0, message |-> "", attempted |-> attempted, failed |-> failed]

\* StuckJobs without the age test, OldRecords without the status test.
StuckJobsAnyAge(books, t) ==
    { j \in DOMAIN books : books[j].status = "processing" }

OldRecordsAnyStatus(books, t) ==
    { j \in DOMAIN books :
        books[j].created_at < t - OLD_RECORD_THRESHOLD_SECONDS }

\* OldRecords without the age test.
OldRecordsAnyAge(books, t) ==
    { j \in DOMAIN books : books[j].status \in {"pending", "failed"} }

\* Queries of the cleanup task.
StuckJobs(books, t) ==
    { j \in DOMAIN books :
        /\ books[j].status = "processing"
        /\ books[j].updated_at < t - STUCK_JOB_THRESHOLD_SECONDS }

OldRecords(books, t) ==
    { j \in DOMAIN books :
        /\ books[j].status \in {"pending", "failed"}
        /\ books[j].created_at < t - OLD_RECORD_THRESHOLD_SECONDS }

\* ToList without the length: every matching document.
ToListAll(matching, n) == { matching }

\* cursor.to_list(length=n): at most n of the matching documents; which ones,
\* when more match, is the server's choice.
ToList(matching, n) ==
    { S \in SUBSET matching :
        Cardinality(S) = IF Cardinality(matching) < n
                         THEN Cardinality(matching) ELSE n }

\* ------------------------------------------------- uploads and executions
\* The title upload_pdf and process_pdf derive from a name when no title is
\* given is os.path.splitext(name)[0], which sanitize_filename leaves as it
\* is for these names; the path of the text file an execution writes for a
\* title.
\* The two directories of the shared storage, as the service names them.
MARKDOWN_PATH == <<"storage", "markdown">>
IMAGES_PATH == <<"storage", "images">>

MarkdownFilePath(title) == CASE title = "a" -> <<"storage", "markdown", "a.md">>
                             [] title = "b" -> <<"storage", "markdown", "b.md">>

\* The path of the copy of the engine's raw text that an execution saves.
RawMarkdownPath(title) ==
    CASE title = "a" -> <<"storage", "markdown", "a_raw_magic_pdf.md">>
      [] title = "b" -> <<"storage", "markdown", "b_raw_magic_pdf.md">>

\* os.path.join(directory, name)
PathJoin(directory, name) == directory \o <<name>>

\* The files the engine's image writer has written for a list of images.
ImageFiles(images) == { PathJoin(IMAGES_PATH, images[i].filename) : i \in DOMAIN images }

CallbackUrl == <<"http://backend/api/books/callback">>

\* The body of the conversion service's answer to /process-pdf.
ProcessResponse(success, message, job_id, status) ==
    [success |-> success, message |-> message, job_id |-> job_id, status |-> status]

NoProcessResponse == ProcessResponse(FALSE, "", 0, "")

\* An upload_pdf request: where it is, the file it carries, the executions
\* that were running when it arrived, what the service answered, and the
\* status code and cause of its own answer.
NoUpload ==
    [ phase |-> "none", filename |-> "", during |-> {},
      response |-> NoProcessResponse, code |-> 0, cause |-> "none" ]

\* The stages of the try block of perform_pdf_processing.
Stages == {"read", "engine", "normalize", "write"}

\* str(e) of the exception a stage raises.
ExceptionMessage(stage) == <<"error in ", stage>>

\* The locals of perform_pdf_processing as the function sets them first.
NoExec ==
    [ pc |-> "none", temp_pdf_path |-> "", sanitized_title |-> "",
      callback_status |-> "processing",
      callback_message |-> <<"Processing started">>,
      callback_file_path |-> None,
      callback_images_data |-> <<>>,
      processing_error_detail |-> None,
      raised |-> "none", requests |-> 0, answer |-> "none" ]

\* The images list an execution builds from the engine's output.
EngineImages == { <<>>, <<Img1>> }

\* The end of the try block when nothing raised.
TryCompleted(e, images) ==
    [e EXCEPT !.callback_status = "completed",
              !.callback_message = <<"Processing complete">>,
              !.callback_file_path = MarkdownFilePath(e.sanitized_title),
              !.callback_images_data = images]

\* The except branch.
TryFailed(e, stage) ==
    [e EXCEPT !.callback_status = "failed",
              !.callback_message = <<"Processing failed: ">> \o ExceptionMessage(stage),
              !.processing_error_detail = ExceptionMessage(stage),
              !.raised = stage]

\* TryBlock with the completed status set before the text file is written.
TryBlockCompletedBeforeWrite(e, stage, images) ==
    IF stage = "none" THEN TryCompleted(e, images)
    ELSE IF stage = "write" THEN [TryCompleted(e, images) EXCEPT !.raised = stage]
    ELSE TryFailed(e, stage)

\* The files the try block writes into the shared storage: the engine's
\* images, the copy of the raw text once the engine has returned, and the
\* final text when no stage raised.
TryWrites(e, stage, images) ==
    (IF stage \in {"normalize", "write", "none"}
     THEN ImageFiles(images) \cup {RawMarkdownPath(e.sanitized_title)}
     ELSE {})
      \cup (IF stage = "none" THEN {MarkdownFilePath(e.sanitized_title)} ELSE {})

\* The try block as a whole: it raises at a stage or runs to its end.
TryBlock(e, stage, images) ==
    IF stage = "none" THEN TryCompleted(e, images) ELSE TryFailed(e, stage)

\* callback_data, as the backend's PDFServiceCallbackData reads it: file_path
\* and images are sent with a completed status only and default to None, [].
CallbackData(j, e) ==
    Payload(j, e.callback_status, e.callback_message,
            IF e.callback_status = "completed" THEN e.callback_file_path ELSE None,
            IF e.callback_status = "completed" THEN e.callback_images_data ELSE <<>>,
            e.processing_error_detail)

\* ------------------------------------------------------- text and chunker
\* A text is a sequence of characters; a backend's raw output may also hold
\* the tokens "fence" (three backquotes) and "markdown".
Chars == {"x", " ", "\n"}

Whitespace == {" ", "\n"}

Texts(n) == UNION { [1..k -> Chars] : k \in 0..n }

\* str.strip()
RECURSIVE LStrip(_)
LStrip(t) == IF t # <<>> /\ Head(t) \in Whitespace THEN LStrip(Tail(t)) ELSE t

RECURSIVE RStrip(_)
RStrip(t) ==
    IF t # <<>> /\ t[Len(t)] \in Whitespace THEN RStrip(SubSeq(t, 1, Len(t) - 1)) ELSE t

Strip(t) == RStrip(LStrip(t))

\* str.split('\n')
RECURSIVE SplitLines(_)
SplitLines(t) ==
    IF \A i \in DOMAIN t : t[i] # "\n" THEN <<t>>
    ELSE LET i == CHOOSE k \in DOMAIN t :
                    t[k] = "\n" /\ \A m \in 1..(k - 1) : t[m] # "\n"
         IN  <<SubSeq(t, 1, i - 1)>> \o SplitLines(SubSeq(t, i + 1, Len(t)))

\* sum(len(chunk) for chunk in chunks)
RECURSIVE TotalLength(_)
TotalLength(cs) == IF cs = <<>> THEN 0 ELSE Len(Head(cs)) + TotalLength(Tail(cs))

\* sep.join(parts)
RECURSIVE Join(_, _)
Join(sep, parts) ==
    IF parts = <<>> THEN <<>>
    ELSE IF Len(parts) = 1 THEN parts[1]
    ELSE parts[1] \o sep \o Join(sep, Tail(parts))

\* InitialSplit with the newline that joins a line to the chunk not counted.
RECURSIVE InitialSplitNoSeparator(_, _, _, _)
InitialSplitNoSeparator(lines, cs, current_chunk, size) ==
    IF lines = <<>>
    THEN IF current_chunk # <<>> THEN Append(cs, Strip(current_chunk)) ELSE cs
    ELSE LET line == Head(lines)
         IN  IF Len(current_chunk) + Len(line) > size /\ current_chunk # <<>>
             THEN InitialSplitNoSeparator(Tail(lines), Append(cs, Strip(current_chunk)),
                                          line, size)
             ELSE InitialSplitNoSeparator(Tail(lines), cs,
                                          IF current_chunk # <<>>
                                          THEN current_chunk \o <<"\n">> \o line
                                          ELSE line,
                                          size)

\* The first loop of split_markdown_into_chunks, over the lines still to
\* place, with the chunks closed so far and the chunk being filled.
RECURSIVE InitialSplit(_, _, _, _)
InitialSplit(lines, cs, current_chunk, size) ==
    IF lines = <<>>
    THEN IF current_chunk # <<>> THEN Append(cs, Strip(current_chunk)) ELSE cs
    ELSE LET line == Head(lines)
         IN  IF Len(current_chunk) + Len(line) + 1 > size /\ current_chunk # <<>>
             THEN InitialSplit(Tail(lines), Append(cs, Strip(current_chunk)), line, size)
             ELSE InitialSplit(Tail(lines), cs,
                               IF current_chunk # <<>>
                               THEN current_chunk \o <<"\n">> \o line
                               ELSE line,
                               size)

\* Recombine with chunks closed until max_chunks of them are closed.
RECURSIVE RecombineOffByOne(_, _, _, _, _, _)
RecombineOffByOne(cs, combined_chunks, current_chunk, chunk_count, avg_length, n) ==
    IF cs = <<>>
    THEN IF current_chunk # <<>>
         THEN Append(combined_chunks, Strip(current_chunk))
         ELSE combined_chunks
    ELSE LET chunk == Head(cs)
         IN  IF Len(current_chunk) + Len(chunk) + 1 > avg_length /\ chunk_count < n
             THEN RecombineOffByOne(Tail(cs), Append(combined_chunks, Strip(current_chunk)),
                                    chunk, chunk_count + 1, avg_length, n)
             ELSE RecombineOffByOne(Tail(cs), combined_chunks,
                                    IF current_chunk # <<>>
                                    THEN current_chunk \o <<"\n", "\n">> \o chunk
                                    ELSE chunk,
                                    chunk_count, avg_length, n)

\* The recombination loop of split_markdown_into_chunks.
RECURSIVE Recombine(_, _, _, _, _, _)
Recombine(cs, combined_chunks, current_chunk, chunk_count, avg_length, n) ==
    IF cs = <<>>
    THEN IF current_chunk # <<>>
         THEN Append(combined_chunks, Strip(current_chunk))
         ELSE combined_chunks
    ELSE LET chunk == Head(cs)
         IN  IF Len(current_chunk) + Len(chunk) + 1 > avg_length /\ chunk_count < n - 1
             THEN Recombine(Tail(cs), Append(combined_chunks, Strip(current_chunk)),
                            chunk, chunk_count + 1, avg_length, n)
             ELSE Recombine(Tail(cs), combined_chunks,
                            IF current_chunk # <<>>
                            THEN current_chunk \o <<"\n", "\n">> \o chunk
                            ELSE chunk,
                            chunk_count, avg_length, n)

NonEmpty(chunk) == chunk # <<>>

\* split_markdown_into_chunks(md_text, max_chunk_size, max_chunks)
SplitMarkdownIntoChunks(text, size, n) ==
    LET initial == InitialSplit(SplitLines(text), <<>>, <<>>, size)
    IN  IF Len(initial) > n
        THEN LET total_length == TotalLength(initial)
                 avg_length == IF n > 0 THEN total_length \div n ELSE total_length
                 combined_chunks == Recombine(initial, <<>>, <<>>, 0, avg_length, n)
             IN  IF combined_chunks = <<>> /\ initial # <<>>
                 THEN <<text>>
                 ELSE SelectSeq(combined_chunks, NonEmpty)
        ELSE SelectSeq(initial, NonEmpty)

\* ------------------------------------------------------- rewrite backends
\* What a backend call does for one chunk: it raises, or returns raw output.
Outcome(raised, raw) == [raised |-> raised, raw |-> raw]

RawTokens == {"fence", "x", " ", "\n"}

RawOutputs ==
    UNION { [1..k -> RawTokens] : k \in 0..2 }
      \cup { <<"fence", "x", "fence">>, <<"fence", "markdown", "\n", "x", "\n", "fence">> }

Outcomes == { Outcome(TRUE, <<>>) } \cup { Outcome(FALSE, raw) : raw \in RawOutputs }

\* strip_pattern.match(raw) and group(1).strip(), or raw.strip() when the
\* output is not wholly wrapped in one pair of fences.
StripFence(raw) ==
    LET t == Strip(raw)
    IN  IF Len(t) >= 2 /\ t[1] = "fence" /\ t[Len(t)] = "fence"
        THEN LET inner == SubSeq(t, 2, Len(t) - 1)
             IN  Strip(IF inner # <<>> /\ Head(inner) = "markdown"
                       THEN Tail(inner) ELSE inner)
        ELSE t

\* The body of the loop of reformat_markdown_with_ollama for one chunk: what
\* is appended to reformatted_chunks.
OllamaChunk(chunk, outcome) ==
    IF Strip(chunk) = <<>> THEN chunk
    ELSE IF outcome.raised THEN chunk
    ELSE LET reformatted_chunk == StripFence(outcome.raw)
         IN  IF Strip(reformatted_chunk) = <<>> /\ Strip(chunk) # <<>>
             THEN chunk
             ELSE reformatted_chunk

\* The same for reformat_markdown_with_gemini.
GeminiChunk(chunk, outcome) ==
    IF Strip(chunk) = <<>> THEN chunk
    ELSE IF outcome.raised THEN chunk
    ELSE StripFence(outcome.raw)

\* ------------------------------------------------ titles and image paths
\* The characters of a title: a letter, a space, a tab, the three marks
\* sanitize_filename keeps, and one it removes.
TitleChars == {"a", " ", "\t", ".", "-", "_", "!"}

\* [^\w.-] removes every character outside this set.
KeptChars == {"a", "_", ".", "-"}

\* A title, or the stem of a file name: not empty.
Titles == UNION { [1..k -> TitleChars] : k \in 1..MaxTitleLen }

\* filename.replace(' ', '_')
SpacesToUnderscores(t) == [i \in DOMAIN t |-> IF t[i] = " " THEN "_" ELSE t[i]]

IsKept(c) == c \in KeptChars

\* re.sub(r'[^\w.-]', '', sanitized)
RemoveOthers(t) == SelectSeq(t, IsKept)

\* sanitized.strip('._-')
RECURSIVE StripMarks(_)
StripMarks(t) ==
    IF t # <<>> /\ Head(t) \in {".", "_", "-"} THEN StripMarks(Tail(t))
    ELSE IF t # <<>> /\ t[Len(t)] \in {".", "_", "-"}
    THEN StripMarks(SubSeq(t, 1, Len(t) - 1))
    ELSE t

\* sanitize_filename of the backend (books.py).
BackendSanitizeFilename(t) ==
    LET sanitized == StripMarks(RemoveOthers(SpacesToUnderscores(t)))
    IN  IF sanitized = <<>> THEN <<"sanitized_file">> ELSE sanitized

\* sanitize_filename of the conversion service (pdf_service/app.py).
ServiceSanitizeFilename(t) == RemoveOthers(SpacesToUnderscores(t))

\* The fragments of a text with image references, and of the paths in it.
PathTokens == {"/", "images/", "a.png", "x"}

RefTexts == UNION { [1..k -> PathTokens] : k \in 0..MaxRefTextLen }

\* What the engine reports for an image: the path it put into the text and
\* the name it saved the file under; either may be missing.
ImageInfos ==
    { [md_path |-> m, save_name |-> n] :
        m \in {None, <<"a.png">>, <<"images/", "a.png">>, <<"x">>},
        n \in {None, <<"a.png">>, <<"b.png">>} }

ImageInfoLists == UNION { [1..k -> ImageInfos] : k \in 0..MaxImages }

\* str.replace(old, new) for a non-empty old: occurrences from the left,
\* not overlapping.
RECURSIVE Replace(_, _, _)
Replace(t, old, new) ==
    IF Len(t) < Len(old) THEN t
    ELSE IF SubSeq(t, 1, Len(old)) = old
    THEN new \o Replace(SubSeq(t, Len(old) + 1, Len(t)), old, new)
    ELSE <<Head(t)>> \o Replace(Tail(t), old, new)

\* f"/images/{final_saved_filename}"
WebPath(save_name) == <<"/", "images/">> \o save_name

\* The loop that rewrites image paths: one replace per image that has both
\* a path and a name.
RECURSIVE RewriteImagePaths(_, _)
RewriteImagePaths(content, infos) ==
    IF infos = <<>> THEN content
    ELSE LET original_md_path == Head(infos).md_path
             final_saved_filename == Head(infos).save_name
         IN  RewriteImagePaths(
                 IF Truthy(original_md_path) /\ Truthy(final_saved_filename)
                 THEN Replace(content, original_md_path, WebPath(final_saved_filename))
                 ELSE content,
                 Tail(infos))

\* ------------------------------------------------------------------ state
VARIABLES
    now,        \* the clock (datetime.utcnow())
    nextJob,    \* the next job id the conversion service issues (uuid4)
    store,      \* the books collection: _id -> document
    ncb,        \* the number of callback requests received so far
    rpc,        \* where the cleanup task is in its cycle
    rlist,      \* the documents its current query returned
    rdone,      \* the _ids of rlist its loop has gone through
    rthreshold, \* the threshold time of its current query
    last,       \* the last request or write that finished
    nraised,    \* the number of sweeps an exception has ended so far
    BACKEND_CALLBACK_URL, \* the conversion service's callback URL setting
    upl,        \* upload_pdf requests: submission -> progress
    exec,       \* perform_pdf_processing runs: job -> locals and position
    tmp,        \* PDF_STORAGE_PATH: file name -> job whose bytes it holds
    md_text,    \* the text given to the chunker or to a rewrite function
    max_chunk_size,
    max_chunks,
    backend,    \* which rewrite function runs
    chunks,     \* what split_markdown_into_chunks returned
    outcomes,   \* what the rewrite backend did for each chunk so far
    reformatted_chunks,
    combined_text, \* what the rewrite function returned
    tpc,        \* where the text pipeline is
    base_title, \* the title or file name stem given to sanitize_filename
    sanitized_book_title, \* what the backend's sanitize_filename returned
    sanitized_title,      \* what the service's sanitize_filename returned
    reformatted_md_text,  \* the text before its image paths are rewritten
    output_images_info,   \* the engine's images: md_path and save_name
    current_md_content,   \* the text after the rewriting loop
    npc,        \* which of these functions is called, and whether it returned
    files,      \* the shared storage: the files in its two directories
    CONTAINER_MARKDOWN_PATH, \* the backend's MARKDOWN_PATH setting
    CONTAINER_IMAGES_PATH    \* the backend's IMAGES_PATH setting

backendVars == <<now, nextJob, store, ncb, rpc, rlist, rdone, rthreshold, last>>
pipeVars == <<BACKEND_CALLBACK_URL, upl, exec, tmp>>
textVars == <<md_text, max_chunk_size, max_chunks, backend, chunks, outcomes,
              reformatted_chunks, combined_text, tpc>>

nameVars == <<base_title, sanitized_book_title, sanitized_title,
              reformatted_md_text, output_images_info, current_md_content, npc>>
diskVars == <<files, CONTAINER_MARKDOWN_PATH, CONTAINER_IMAGES_PATH>>
sweepVars == <<nraised>>

vars == <<backendVars, pipeVars, textVars, nameVars, diskVars, sweepVars>>

Op(op, j, p, pre, resp) ==
    [op |-> op, job |-> j, payload |-> p, pre |-> pre, response |-> resp]

\* A document as a query of the cleanup task returned it.
Doc(j) == [id |-> j, doc |-> store[j]]

Ids(docs) == { d.id : d \in docs }

BookOrNone(id) == IF id \in DOMAIN store THEN store[id] ELSE NoBook

\* The job store and the cleanup task after startup.
InitBackend ==
    /\ now = 0
    /\ nextJob = 1
    /\ store = <<>>
    /\ ncb = 0
    /\ rpc = "idle"
    /\ rlist = {}
    /\ rdone = {}
    /\ rthreshold = 0
    /\ last = Op("none", 0, NoPayload, NoBook, NoResponse)
    /\ nraised = 0

\* No upload request, no execution, no staged file.
InitPipeIdle ==
    /\ upl = [s \in JobIds |-> NoUpload]
    /\ exec = [j \in JobIds |-> NoExec]
    /\ tmp = <<>>

\* No text at the chunker.
InitTextIdle ==
    /\ md_text = <<>>
    /\ max_chunk_size = 0
    /\ max_chunks = 0
    /\ backend = "none"
    /\ chunks = <<>>
    /\ outcomes = <<>>
    /\ reformatted_chunks = <<>>
    /\ combined_text = <<>>
    /\ tpc = "idle"

\* No call of sanitize_filename or of the path rewriting.
InitNameIdle ==
    /\ base_title = <<>>
    /\ sanitized_book_title = <<>>
    /\ sanitized_title = <<>>
    /\ reformatted_md_text = <<>>
    /\ output_images_info = <<>>
    /\ current_md_content = <<>>
    /\ npc = "idle"

\* Both storage directories configured in the backend and empty.
InitDisk ==
    /\ files = {}
    /\ CONTAINER_MARKDOWN_PATH = MARKDOWN_PATH
    /\ CONTAINER_IMAGES_PATH = IMAGES_PATH

Init ==
    /\ InitBackend
    /\ BACKEND_CALLBACK_URL = CallbackUrl
    /\ InitPipeIdle
    /\ InitTextIdle
    /\ InitNameIdle
    /\ InitDisk

\* ---------------------------------------------------------------- actions
Tick ==
    /\ now < MaxTime
    /\ now' = now + 1
    /\ UNCHANGED <<nextJob, store, ncb, rpc, rlist, rdone, rthreshold, last, pipeVars, textVars, nameVars, sweepVars, diskVars>>

\* upload_pdf: the conversion service issues a job id and a status, the
\* handler saves the initial record.
Upload ==
    /\ nextJob <= MaxJobs
    /\ \E st \in InitialStatuses, name \in (IF nextJob = 1 THEN {"a.pdf"} ELSE FileNames) :
         /\ store' = (nextJob :> NewBook(nextJob, name, st, now)) @@ store
         /\ last' = Op("upload", nextJob, NoPayload, NoBook, NoResponse)
    /\ nextJob' = nextJob + 1
    /\ UNCHANGED <<now, ncb, rpc, rlist, rdone, rthreshold, pipeVars, textVars, nameVars, sweepVars, diskVars>>

\* pdf_processing_callback when get_book_by_job_id finds no document.
CallbackNotFound ==
    /\ ncb < MaxCallbacks
    /\ \E p \in Payloads :
         /\ p.job_id \notin DOMAIN store
         /\ last' = Op("callback", p.job_id, p, NoBook,
                       CallbackResponse(FALSE, FALSE))
    /\ ncb' = ncb + 1
    /\ UNCHANGED <<now, nextJob, store, rpc, rlist, rdone, rthreshold, pipeVars, textVars, nameVars, sweepVars, diskVars>>

\* pdf_processing_callback when get_book_by_job_id finds the document: the
\* handler builds update_data, calls update_book and answers.
CallbackUpdate ==
    /\ ncb < MaxCallbacks
    /\ \E p \in Payloads :
         /\ p.job_id \in DOMAIN store
         /\ store' = update_book(store, p.job_id, CallbackUpdateData(p, now), now)
         /\ last' = Op("callback", p.job_id, p, store[p.job_id],
                       CallbackResponse(TRUE, p.job_id \in DOMAIN store))
    /\ ncb' = ncb + 1
    /\ UNCHANGED <<now, nextJob, rpc, rlist, rdone, rthreshold, pipeVars, textVars, nameVars, sweepVars, diskVars>>

\* delete_book_route calls get_book(book_id, current_user_id) (books.py:660)
\* but get_book takes one argument (mongodb.py:72): the call raises TypeError
\* before anything is read or deleted, and the request ends in a 500.
delete_book_route ==
    /\ \E id \in DOMAIN store :
         last' = Op("delete_book_route", id, NoPayload, store[id],
                    [code |-> 500, message |-> "Internal Server Error"])
    /\ UNCHANGED <<now, nextJob, store, ncb, rpc, rlist, rdone, rthreshold, pipeVars, textVars, nameVars, sweepVars, diskVars>>

\* run_cleanup_task, part 1: the query for stuck jobs.
SweepFindStuck ==
    /\ rpc = "idle"
    /\ \E S \in ToList(StuckJobs(store, now), ToListLength) :
         rlist' = { Doc(j) : j \in S }
    /\ rdone' = {}
    /\ rthreshold' = now - STUCK_JOB_THRESHOLD_SECONDS
    /\ rpc' = "stuck"
    /\ UNCHANGED <<now, nextJob, store, ncb, last, pipeVars, textVars, nameVars, sweepVars, diskVars>>

\* run_cleanup_task, part 1: one iteration of the loop over the stuck jobs.
SweepMarkFailed ==
    /\ rpc = "stuck"
    /\ \E d \in rlist :
         /\ d.id \notin rdone
         /\ store' = update_book(store, d.id, StuckUpdateData(now), now)
         /\ rdone' = rdone \cup {d.id}
         /\ last' = Op("timeout", d.id, NoPayload, BookOrNone(d.id), NoResponse)
    /\ UNCHANGED <<now, nextJob, ncb, rpc, rlist, rthreshold, pipeVars, textVars, nameVars, sweepVars, diskVars>>

\* run_cleanup_task, part 2: the query for old records, once the loop of
\* part 1 is over.  With nothing to delete the task goes back to sleep; its
\* locals are dead then and are cleared.
SweepFindOld ==
    /\ rpc = "stuck"
    /\ rdone = Ids(rlist)
    /\ \E S \in ToList(OldRecords(store, now), DeleteListLength) :
         /\ rlist' = { Doc(j) : j \in S }
         /\ rpc' = IF S = {} THEN "idle" ELSE "delete"
         /\ rthreshold' = IF S = {} THEN 0
                          ELSE now - OLD_RECORD_THRESHOLD_SECONDS
    /\ rdone' = {}
    /\ UNCHANGED <<now, nextJob, store, ncb, last, pipeVars, textVars, nameVars, sweepVars, diskVars>>

\* SweepDelete with the iteration given up when a file's removal raises.
SweepDeleteAbortsOnFileError ==
    /\ rpc = "delete"
    /\ \E d \in rlist :
         /\ d.id \notin rdone
         /\ LET targets == DeleteTargets(d.doc, CONTAINER_MARKDOWN_PATH, CONTAINER_IMAGES_PATH)
            IN  \E removed \in SUBSET (targets \cap files) :
                  /\ files' = files \ removed
                  /\ store' = IF removed = targets \cap files
                              THEN [j \in DOMAIN store \ {d.id} |-> store[j]]
                              ELSE store
                  /\ last' = Op("delete", d.id, NoPayload, BookOrNone(d.id),
                                DeleteReport(targets, (targets \cap files) \ removed))
         /\ IF rdone \cup {d.id} = Ids(rlist)
            THEN /\ rpc' = "idle"
                 /\ rlist' = {}
                 /\ rdone' = {}
                 /\ rthreshold' = 0
            ELSE /\ rdone' = rdone \cup {d.id}
                 /\ UNCHANGED <<rpc, rlist, rthreshold>>
    /\ UNCHANGED <<now, nextJob, ncb, pipeVars, textVars, nameVars, sweepVars,
                   CONTAINER_MARKDOWN_PATH, CONTAINER_IMAGES_PATH>>

\* run_cleanup_task, part 2: one iteration of the loop over the old records:
\* delete_file_async for the text file and the image files named in the
\* document as the query returned it (a removal that raises is logged and
\* the file stays), then db.books.delete_one by _id; after the last
\* iteration the task sleeps again.
SweepDelete ==
    /\ rpc = "delete"
    /\ \E d \in rlist :
         /\ d.id \notin rdone
         /\ LET targets == DeleteTargets(d.doc, CONTAINER_MARKDOWN_PATH, CONTAINER_IMAGES_PATH)
            IN  \E removed \in SUBSET (targets \cap files) :
                  /\ files' = files \ removed
                  /\ last' = Op("delete", d.id, NoPayload, BookOrNone(d.id),
                                DeleteReport(targets, (targets \cap files) \ removed))
         /\ store' = [j \in DOMAIN store \ {d.id} |-> store[j]]
         /\ IF rdone \cup {d.id} = Ids(rlist)
            THEN /\ rpc' = "idle"
                 /\ rlist' = {}
                 /\ rdone' = {}
                 /\ rthreshold' = 0
            ELSE /\ rdone' = rdone \cup {d.id}
                 /\ UNCHANGED <<rpc, rlist, rthreshold>>
    /\ UNCHANGED <<now, nextJob, ncb, pipeVars, textVars, nameVars, sweepVars,
                   CONTAINER_MARKDOWN_PATH, CONTAINER_IMAGES_PATH>>

Next ==
    \/ Tick
    \/ Upload
    \/ CallbackNotFound
    \/ CallbackUpdate
    \/ delete_book_route
    \/ SweepFindStuck
    \/ SweepMarkFailed
    \/ SweepFindOld
    \/ SweepDelete

Spec == Init /\ [][Next]_vars

TypeOK ==
    /\ now \in Times
    /\ nextJob \in 1..(MaxJobs + 1)
    /\ DOMAIN store \subseteq JobIds
    /\ ncb \in 0..MaxCallbacks
    /\ rpc \in {"idle", "stuck", "delete"}

\* ----------------------------------------- actions: uploads and executions
\* perform_pdf_processing is an async function that never awaits, and the
\* service runs it as a background task on its event loop (add_task,
\* pdf_service/app.py:661): from its first statement to its last the loop
\* runs nothing else.
Running(e) == e.pc \in {"try", "finally", "callback"}

LoopBusy == \E j \in JobIds : Running(exec[j])

\* upload_pdf up to the request call_pdf_service_upload posts to the service.
\* The first upload carries a.pdf, a later one any name.
call_pdf_service_upload ==
    /\ nextJob <= MaxJobs
    /\ \E name \in (IF nextJob = 1 THEN {"a.pdf"} ELSE FileNames) :
         upl' = [upl EXCEPT ![nextJob] =
                   [NoUpload EXCEPT !.phase = "posted", !.filename = name,
                                    !.during = { k \in JobIds : Running(exec[k]) }]]
    /\ nextJob' = nextJob + 1
    /\ UNCHANGED <<now, store, ncb, rpc, rlist, rdone, rthreshold, last,
                   BACKEND_CALLBACK_URL, exec, tmp, textVars, nameVars, sweepVars, diskVars>>

\* process_pdf answering "processing", the other status its response model
\* documents.
process_pdf_answers_processing ==
    /\ ~LoopBusy
    /\ \E s \in JobIds :
         /\ upl[s].phase = "posted"
         /\ tmp' = (upl[s].filename :> s) @@ tmp
         /\ exec' = [exec EXCEPT ![s] =
                      [NoExec EXCEPT !.pc = "scheduled",
                                     !.temp_pdf_path = upl[s].filename,
                                     !.sanitized_title = Splitext0(upl[s].filename)]]
         /\ upl' = [upl EXCEPT ![s].phase = "answered",
                               ![s].response =
                                  ProcessResponse(TRUE, "Processing job started", s, "processing")]
    /\ UNCHANGED <<backendVars, BACKEND_CALLBACK_URL, textVars, nameVars, sweepVars, diskVars>>

\* process_pdf: the service issues the job id, stages the file under its
\* original name, schedules the execution and answers "pending".
process_pdf ==
    /\ ~LoopBusy
    /\ \E s \in JobIds :
         /\ upl[s].phase = "posted"
         /\ tmp' = (upl[s].filename :> s) @@ tmp
         /\ exec' = [exec EXCEPT ![s] =
                      [NoExec EXCEPT !.pc = "scheduled",
                                     !.temp_pdf_path = upl[s].filename,
                                     !.sanitized_title = Splitext0(upl[s].filename)]]
         /\ upl' = [upl EXCEPT ![s].phase = "answered",
                               ![s].response =
                                  ProcessResponse(TRUE, "Processing job started", s, "pending")]
    /\ UNCHANGED <<backendVars, BACKEND_CALLBACK_URL, textVars, nameVars, sweepVars, diskVars>>

\* The HTTP status upload_pdf answers with for each way the service call
\* can go wrong.
RejectCode(cause) == IF cause \in {"unreachable", "stage_failed"} THEN 503 ELSE 500

\* upload_pdf when the service cannot be reached, cannot stage the file (its
\* handler answers 500, raise_for_status raises), answers success = false, or
\* answers without job_id: the handler raises HTTPException, nothing is saved.
upload_pdf_rejected ==
    /\ \E s \in JobIds, cause \in {"unreachable", "stage_failed", "success_false", "no_job_id"} :
         /\ upl[s].phase = "posted"
         /\ cause = "stage_failed" => ~LoopBusy
         /\ upl' = [upl EXCEPT ![s].phase = "error",
                               ![s].cause = cause,
                               ![s].code = RejectCode(cause),
                               ![s].response =
                                  IF cause = "success_false"
                                  THEN ProcessResponse(FALSE, "failed", 0, "")
                                  ELSE IF cause = "no_job_id"
                                  THEN ProcessResponse(TRUE, "started", 0, "pending")
                                  ELSE NoProcessResponse]
    /\ UNCHANGED <<backendVars, BACKEND_CALLBACK_URL, exec, tmp, textVars, nameVars, sweepVars, diskVars>>

\* upload_pdf after the service's answer: save_book inserts the record with
\* the status of the answer, and the handler returns the record.
upload_pdf_save ==
    /\ \E s \in JobIds :
         /\ upl[s].phase = "answered"
         /\ store' = (s :> NewBook(upl[s].response.job_id, upl[s].filename,
                                     upl[s].response.status, now))
                        @@ store
         /\ upl' = [upl EXCEPT ![s].phase = "done", ![s].code = 200]
         /\ last' = Op("upload", s, NoPayload, NoBook, NoResponse)
    /\ UNCHANGED <<now, nextJob, ncb, rpc, rlist, rdone, rthreshold,
                   BACKEND_CALLBACK_URL, exec, tmp, textVars, nameVars, sweepVars, diskVars>>

\* upload_pdf_save_failed with the record inserted all the same.
upload_pdf_save_failed_inserted ==
    /\ \E s \in JobIds :
         /\ upl[s].phase = "answered"
         /\ store' = (s :> NewBook(upl[s].response.job_id, upl[s].filename,
                                     upl[s].response.status, now))
                        @@ store
         /\ upl' = [upl EXCEPT ![s].phase = "error", ![s].cause = "save_failed",
                               ![s].code = 500]
    /\ UNCHANGED <<now, nextJob, ncb, rpc, rlist, rdone, rthreshold, last,
                   BACKEND_CALLBACK_URL, exec, tmp, textVars, nameVars, sweepVars, diskVars>>

\* upload_pdf when save_book returns None (the insert raised).
upload_pdf_save_failed ==
    /\ \E s \in JobIds :
         /\ upl[s].phase = "answered"
         /\ upl' = [upl EXCEPT ![s].phase = "error", ![s].cause = "save_failed",
                               ![s].code = 500]
    /\ UNCHANGED <<backendVars, BACKEND_CALLBACK_URL, exec, tmp, textVars, nameVars, sweepVars, diskVars>>

\* The event loop starts a scheduled execution.
ExecStart ==
    /\ ~LoopBusy
    /\ \E j \in JobIds :
         /\ exec[j].pc = "scheduled"
         /\ exec' = [exec EXCEPT ![j].pc = "try"]
    /\ UNCHANGED <<backendVars, BACKEND_CALLBACK_URL, upl, tmp, textVars, nameVars, sweepVars, diskVars>>

\* The try block: reading the staged file raises when it is not there;
\* otherwise any stage may raise, or the block runs to its end.
ExecTry ==
    /\ \E j \in JobIds :
         /\ exec[j].pc = "try"
         /\ \E stage \in (IF exec[j].temp_pdf_path \in DOMAIN tmp
                           THEN Stages \cup {"none"} ELSE {"read"}),
               images \in EngineImages :
              /\ stage # "none" => images = <<>>
              /\ exec' = [exec EXCEPT ![j] =
                           [TryBlock(exec[j], stage, images) EXCEPT !.pc = "finally"]]
              /\ files' = files \cup TryWrites(exec[j], stage, images)
    /\ UNCHANGED <<backendVars, BACKEND_CALLBACK_URL, upl, tmp, textVars, nameVars, sweepVars,
                   CONTAINER_MARKDOWN_PATH, CONTAINER_IMAGES_PATH>>

\* ExecFinally with the removal skipped after an exception.
ExecFinallyOnSuccessOnly ==
    /\ \E j \in JobIds :
         /\ exec[j].pc = "finally"
         /\ tmp' = IF exec[j].raised = "none"
                   THEN [f \in DOMAIN tmp \ {exec[j].temp_pdf_path} |-> tmp[f]]
                   ELSE tmp
         /\ exec' = [exec EXCEPT ![j].pc = "callback"]
    /\ UNCHANGED <<backendVars, BACKEND_CALLBACK_URL, upl, textVars, nameVars, sweepVars, diskVars>>

\* The finally block: the temporary file is removed if it exists.
ExecFinally ==
    /\ \E j \in JobIds :
         /\ exec[j].pc = "finally"
         /\ tmp' = [f \in DOMAIN tmp \ {exec[j].temp_pdf_path} |-> tmp[f]]
         /\ exec' = [exec EXCEPT ![j].pc = "callback"]
    /\ UNCHANGED <<backendVars, BACKEND_CALLBACK_URL, upl, textVars, nameVars, sweepVars, diskVars>>

\* Without BACKEND_CALLBACK_URL the execution logs an error and ends.
ExecNoCallbackUrl ==
    /\ ~Truthy(BACKEND_CALLBACK_URL)
    /\ \E j \in JobIds :
         /\ exec[j].pc = "callback"
         /\ exec' = [exec EXCEPT ![j].pc = "done", ![j].answer = "no_url"]
    /\ UNCHANGED <<backendVars, BACKEND_CALLBACK_URL, upl, tmp, textVars, nameVars, sweepVars, diskVars>>

\* ExecCallbackLost with the request sent again after the failure.
ExecCallbackLostRetried ==
    /\ Truthy(BACKEND_CALLBACK_URL)
    /\ \E j \in JobIds :
         /\ exec[j].pc = "callback"
         /\ exec' = [exec EXCEPT ![j].pc = "done", ![j].answer = "lost",
                                 ![j].requests = @ + 2]
    /\ UNCHANGED <<backendVars, BACKEND_CALLBACK_URL, upl, tmp, textVars, nameVars, sweepVars, diskVars>>

\* requests.post raises: the error is logged and the execution ends.
ExecCallbackLost ==
    /\ Truthy(BACKEND_CALLBACK_URL)
    /\ \E j \in JobIds :
         /\ exec[j].pc = "callback"
         /\ exec' = [exec EXCEPT ![j].pc = "done", ![j].answer = "lost",
                                 ![j].requests = @ + 1]
    /\ UNCHANGED <<backendVars, BACKEND_CALLBACK_URL, upl, tmp, textVars, nameVars, sweepVars, diskVars>>

\* requests.post reaches pdf_processing_callback, which finds no record.
ExecCallbackNotFound ==
    /\ Truthy(BACKEND_CALLBACK_URL)
    /\ \E j \in JobIds :
         /\ exec[j].pc = "callback"
         /\ j \notin DOMAIN store
         /\ last' = Op("callback", j, CallbackData(j, exec[j]), NoBook,
                       CallbackResponse(FALSE, FALSE))
         /\ exec' = [exec EXCEPT ![j].pc = "done", ![j].answer = "not_found",
                                 ![j].requests = @ + 1]
    /\ UNCHANGED <<now, nextJob, store, ncb, rpc, rlist, rdone, rthreshold,
                   BACKEND_CALLBACK_URL, upl, tmp, textVars, nameVars, sweepVars, diskVars>>

\* requests.post reaches pdf_processing_callback, which updates the record.
ExecCallbackUpdate ==
    /\ Truthy(BACKEND_CALLBACK_URL)
    /\ \E j \in JobIds :
         /\ exec[j].pc = "callback"
         /\ j \in DOMAIN store
         /\ store' = update_book(store, j, CallbackUpdateData(CallbackData(j, exec[j]), now), now)
         /\ last' = Op("callback", j, CallbackData(j, exec[j]), store[j],
                       CallbackResponse(TRUE, TRUE))
         /\ exec' = [exec EXCEPT ![j].pc = "done", ![j].answer = "found",
                                 ![j].requests = @ + 1]
    /\ UNCHANGED <<now, nextJob, ncb, rpc, rlist, rdone, rthreshold,
                   BACKEND_CALLBACK_URL, upl, tmp, textVars, nameVars, sweepVars, diskVars>>

\* The deployment runs with or without a callback URL.
InitPipeline ==
    /\ InitBackend
    /\ BACKEND_CALLBACK_URL \in {None, CallbackUrl}
    /\ InitPipeIdle
    /\ InitTextIdle
    /\ InitNameIdle
    /\ InitDisk

\* The steps of the backend and of the conversion service.  The loop body of
\* the cleanup task's part 1 (SweepMarkFailed) is no step here: process_pdf
\* answers "pending" and no callback stores "processing", so the stuck-job
\* query returns no record.
NextPipeline ==
    \/ Tick
    \/ call_pdf_service_upload
    \/ process_pdf
    \/ upload_pdf_rejected
    \/ upload_pdf_save
    \/ upload_pdf_save_failed
    \/ ExecStart
    \/ ExecTry
    \/ ExecFinally
    \/ ExecNoCallbackUrl
    \/ ExecCallbackLost
    \/ ExecCallbackNotFound
    \/ ExecCallbackUpdate
    \/ SweepFindStuck
    \/ SweepFindOld
    \/ SweepDelete

\* The backend together with the conversion service of this repository.
SpecPipeline == InitPipeline /\ [][NextPipeline]_vars

\* ------------------------------------------------ actions: text pipeline
\* A call of the chunker with any text, size and count, or a call of one of
\* the two rewrite functions with any text.
InitText ==
    /\ InitBackend
    /\ BACKEND_CALLBACK_URL = CallbackUrl
    /\ InitPipeIdle
    /\ InitNameIdle
    /\ InitDisk
    /\ backend \in {"none", "ollama", "gemini"}
    /\ md_text \in Texts(IF backend = "none" THEN MaxTextLen ELSE MaxRewriteTextLen)
    /\ max_chunk_size \in (IF backend = "none" THEN 1..MaxChunkSize
                            ELSE IF backend = "ollama" THEN {MAX_CHUNK_CHARS}
                            ELSE {MAX_CHUNK_CHARS_GEMINI})
    /\ max_chunks \in (IF backend = "none" THEN 0..MaxChunks
                        ELSE IF backend = "ollama" THEN {OLLAMA_MAX_CHUNKS}
                        ELSE {GEMINI_MAX_CHUNKS})
    /\ chunks = <<>>
    /\ outcomes = <<>>
    /\ reformatted_chunks = <<>>
    /\ combined_text = <<>>
    /\ tpc = "call"

\* split_markdown_into_chunks called on its own.
split_markdown_into_chunks ==
    /\ tpc = "call"
    /\ backend = "none"
    /\ chunks' = SplitMarkdownIntoChunks(md_text, max_chunk_size, max_chunks)
    /\ tpc' = "returned"
    /\ UNCHANGED <<backendVars, pipeVars, nameVars, sweepVars, diskVars, md_text, max_chunk_size, max_chunks, backend,
                   outcomes, reformatted_chunks, combined_text>>

\* A rewrite function splits its text.
ReformatSplit ==
    /\ tpc = "call"
    /\ backend # "none"
    /\ chunks' = SplitMarkdownIntoChunks(md_text, max_chunk_size, max_chunks)
    /\ tpc' = "loop"
    /\ UNCHANGED <<backendVars, pipeVars, nameVars, sweepVars, diskVars, md_text, max_chunk_size, max_chunks, backend,
                   outcomes, reformatted_chunks, combined_text>>

\* One iteration of the loop of reformat_markdown_with_ollama.
ReformatChunkOllama ==
    /\ tpc = "loop"
    /\ backend = "ollama"
    /\ Len(reformatted_chunks) < Len(chunks)
    /\ \E outcome \in Outcomes :
         LET chunk == chunks[Len(reformatted_chunks) + 1]
         IN  /\ outcomes' = Append(outcomes, outcome)
             /\ reformatted_chunks' = Append(reformatted_chunks, OllamaChunk(chunk, outcome))
    /\ UNCHANGED <<backendVars, pipeVars, nameVars, sweepVars, diskVars, md_text, max_chunk_size, max_chunks, backend,
                   chunks, combined_text, tpc>>

\* One iteration of the loop of reformat_markdown_with_gemini.
ReformatChunkGemini ==
    /\ tpc = "loop"
    /\ backend = "gemini"
    /\ Len(reformatted_chunks) < Len(chunks)
    /\ \E outcome \in Outcomes :
         LET chunk == chunks[Len(reformatted_chunks) + 1]
         IN  /\ outcomes' = Append(outcomes, outcome)
             /\ reformatted_chunks' = Append(reformatted_chunks, GeminiChunk(chunk, outcome))
    /\ UNCHANGED <<backendVars, pipeVars, nameVars, sweepVars, diskVars, md_text, max_chunk_size, max_chunks, backend,
                   chunks, combined_text, tpc>>

\* The end of a rewrite function: "\n\n".join(reformatted_chunks).
ReformatJoin ==
    /\ tpc = "loop"
    /\ Len(reformatted_chunks) = Len(chunks)
    /\ combined_text' = Join(<<"\n", "\n">>, reformatted_chunks)
    /\ tpc' = "returned"
    /\ UNCHANGED <<backendVars, pipeVars, nameVars, sweepVars, diskVars, md_text, max_chunk_size, max_chunks, backend,
                   chunks, outcomes, reformatted_chunks>>

NextText ==
    \/ split_markdown_into_chunks
    \/ ReformatSplit
    \/ ReformatChunkOllama
    \/ ReformatChunkGemini
    \/ ReformatJoin

\* The chunker and the rewrite functions on every bounded input.
SpecText == InitText /\ [][NextText]_vars

\* --------------------------------------- actions: titles and image paths
\* A call of the backend's or of the service's sanitize_filename with any
\* title, or the path rewriting on any text and image list.
InitNames ==
    /\ InitBackend
    /\ BACKEND_CALLBACK_URL = CallbackUrl
    /\ InitPipeIdle
    /\ InitTextIdle
    /\ InitDisk
    /\ npc \in {"backend", "service", "rewrite"}
    /\ base_title \in (IF npc = "rewrite" THEN {<<>>} ELSE Titles)
    /\ reformatted_md_text \in (IF npc = "rewrite" THEN RefTexts ELSE {<<>>})
    /\ output_images_info \in (IF npc = "rewrite" THEN ImageInfoLists ELSE {<<>>})
    /\ sanitized_book_title = <<>>
    /\ sanitized_title = <<>>
    /\ current_md_content = <<>>

\* upload_pdf: sanitized_book_title = sanitize_filename(book_title)
upload_pdf_sanitize ==
    /\ npc = "backend"
    /\ sanitized_book_title' = BackendSanitizeFilename(base_title)
    /\ npc' = "backend_done"
    /\ UNCHANGED <<backendVars, pipeVars, textVars, sweepVars, diskVars, base_title, sanitized_title,
                   reformatted_md_text, output_images_info, current_md_content>>

\* process_pdf: sanitized_title = sanitize_filename(base_title)
process_pdf_sanitize ==
    /\ npc = "service"
    /\ sanitized_title' = ServiceSanitizeFilename(base_title)
    /\ npc' = "service_done"
    /\ UNCHANGED <<backendVars, pipeVars, textVars, sweepVars, diskVars, base_title,
                   sanitized_book_title, reformatted_md_text, output_images_info,
                   current_md_content>>

\* perform_pdf_processing: the rewriting of image paths in the final text.
rewrite_image_paths ==
    /\ npc = "rewrite"
    /\ current_md_content' = RewriteImagePaths(reformatted_md_text, output_images_info)
    /\ npc' = "rewrite_done"
    /\ UNCHANGED <<backendVars, pipeVars, textVars, sweepVars, diskVars, base_title,
                   sanitized_book_title, sanitized_title, reformatted_md_text,
                   output_images_info>>

NextNames ==
    \/ upload_pdf_sanitize
    \/ process_pdf_sanitize
    \/ rewrite_image_paths

\* sanitize_filename and the path rewriting on every bounded input.
SpecNames == InitNames /\ [][NextNames]_vars

\* ------------------------------------------- actions: the shared storage
\* get_book_status_by_job_id with the effective status written back to the
\* record when it differs from the stored one.
get_book_status_by_job_id_updating ==
    /\ \E job_id \in JobIds :
         LET response == IF job_id \in DOMAIN store
                         THEN StatusResponse(job_id, store[job_id], CONTAINER_MARKDOWN_PATH, files)
                         ELSE StatusNotFound(job_id)
         IN  /\ last' = Op("status", job_id, NoPayload, BookOrNone(job_id), response)
             /\ store' = IF job_id \in DOMAIN store
                         THEN update_book(store, job_id, [status |-> response.status], now)
                         ELSE store
    /\ UNCHANGED <<now, nextJob, ncb, rpc, rlist, rdone, rthreshold,
                   pipeVars, textVars, nameVars, sweepVars, diskVars>>

\* get_book_status_by_job_id: a status poll, for a job with or without
\* record.
get_book_status_by_job_id ==
    /\ \E job_id \in JobIds :
         last' = Op("status", job_id, NoPayload, BookOrNone(job_id),
                    IF job_id \in DOMAIN store
                    THEN StatusResponse(job_id, store[job_id], CONTAINER_MARKDOWN_PATH, files)
                    ELSE StatusNotFound(job_id))
    /\ UNCHANGED <<now, nextJob, store, ncb, rpc, rlist, rdone, rthreshold,
                   pipeVars, textVars, nameVars, sweepVars, diskVars>>

\* The files a callback of PathA, PathB and Img1 names, as the backend
\* finds them in its two directories.
StoredFiles ==
    { PathJoin(MARKDOWN_PATH, "a.md"), PathJoin(MARKDOWN_PATH, "b.md"),
      PathJoin(IMAGES_PATH, Img1.filename) }

\* The backend started with those files in the storage and with its two
\* directory settings both present or both missing.
InitStorage ==
    /\ InitBackend
    /\ BACKEND_CALLBACK_URL = CallbackUrl
    /\ InitPipeIdle
    /\ InitTextIdle
    /\ InitNameIdle
    /\ files = StoredFiles
    /\ \E configured \in BOOLEAN :
         /\ CONTAINER_MARKDOWN_PATH = IF configured THEN MARKDOWN_PATH ELSE None
         /\ CONTAINER_IMAGES_PATH = IF configured THEN IMAGES_PATH ELSE None

NextStorage ==
    \/ Tick
    \/ Upload
    \/ CallbackUpdate
    \/ get_book_status_by_job_id
    \/ SweepFindStuck
    \/ SweepMarkFailed
    \/ SweepFindOld
    \/ SweepDelete

\* The backend, its status poll and its cleanup task over a storage that
\* holds files.
SpecStorage == InitStorage /\ [][NextStorage]_vars

\* ------------------------------------- actions: the cleanup task's loop
\* SweepRaises with the exception leaving the task's while loop.
SweepRaisesAndTaskEnds ==
    /\ nraised < MaxSweepErrors
    /\ \/ /\ rpc = "idle"
          /\ UNCHANGED files
       \/ /\ rpc = "stuck"
          /\ rdone = Ids(rlist)
          /\ UNCHANGED files
       \/ /\ rpc = "delete"
          /\ \E d \in rlist :
               /\ d.id \notin rdone
               /\ \E removed \in SUBSET (DeleteTargets(d.doc, CONTAINER_MARKDOWN_PATH,
                                                        CONTAINER_IMAGES_PATH) \cap files) :
                     files' = files \ removed
    /\ rpc' = "ended"
    /\ rlist' = {}
    /\ rdone' = {}
    /\ rthreshold' = 0
    /\ nraised' = nraised + 1
    /\ UNCHANGED <<now, nextJob, store, ncb, last, pipeVars, textVars, nameVars,
                   CONTAINER_MARKDOWN_PATH, CONTAINER_IMAGES_PATH>>

\* run_cleanup_task when a store call of the cycle raises (to_list of either
\* query, or delete_one after the record's files were handled; update_book
\* catches its own exceptions): the except clause of the cycle logs the
\* error, the rest of the cycle is skipped, and the loop goes back to sleep.
SweepRaises ==
    /\ nraised < MaxSweepErrors
    /\ \/ /\ rpc = "idle"
          /\ UNCHANGED files
       \/ /\ rpc = "stuck"
          /\ rdone = Ids(rlist)
          /\ UNCHANGED files
       \/ /\ rpc = "delete"
          /\ \E d \in rlist :
               /\ d.id \notin rdone
               /\ \E removed \in SUBSET (DeleteTargets(d.doc, CONTAINER_MARKDOWN_PATH,
                                                        CONTAINER_IMAGES_PATH) \cap files) :
                     files' = files \ removed
    /\ rpc' = "idle"
    /\ rlist' = {}
    /\ rdone' = {}
    /\ rthreshold' = 0
    /\ nraised' = nraised + 1
    /\ UNCHANGED <<now, nextJob, store, ncb, last, pipeVars, textVars, nameVars,
                   CONTAINER_MARKDOWN_PATH, CONTAINER_IMAGES_PATH>>

\* The two results an execution reports: completed with a text file, failed
\* with an error.
ResultPayloads ==
    { Payload(j, "completed", <<"Processing complete">>, PathB, <<>>, None) : j \in JobIds }
      \cup { Payload(j, "failed", <<"Processing failed">>, None, <<>>, <<"boom">>) : j \in JobIds }

\* pdf_processing_callback called with such a result for a job that has a
\* record.
CallbackResult ==
    /\ ncb < MaxCallbacks
    /\ \E p \in ResultPayloads :
         /\ p.job_id \in DOMAIN store
         /\ store' = update_book(store, p.job_id, CallbackUpdateData(p, now), now)
         /\ last' = Op("callback", p.job_id, p, store[p.job_id],
                       CallbackResponse(TRUE, p.job_id \in DOMAIN store))
    /\ ncb' = ncb + 1
    /\ UNCHANGED <<now, nextJob, rpc, rlist, rdone, rthreshold, pipeVars, textVars,
                   nameVars, diskVars, sweepVars>>

NextReclaim ==
    \/ Tick
    \/ Upload
    \/ CallbackResult
    \/ SweepFindStuck
    \/ SweepMarkFailed
    \/ SweepFindOld
    \/ SweepDelete
    \/ SweepRaises

\* The cleanup task is created at startup and loops for ever (main.py:104,
\* cleanup_service.py:46-47): time passes, and every step of a cycle that can
\* be taken is taken in the end.
FairReclaim ==
    /\ WF_vars(Tick)
    /\ WF_vars(SweepFindStuck)
    /\ WF_vars(SweepMarkFailed)
    /\ WF_vars(SweepFindOld)
    /\ WF_vars(SweepDelete)

\* The backend with a cleanup task that keeps running, over a store that is
\* available but for a bounded number of failures.
SpecReclaim == Init /\ [][NextReclaim]_vars /\ FairReclaim

\* ----------------------------------------------------------------- claims
\* The record of last.job as the last operation left it: every action that
\* writes the store sets last.
Post == BookOrNone(last.job)

\* The last operation is a callback that found its record.
CallbackApplied ==
    /\ last.op = "callback"
    /\ last.pre # NoBook
    /\ last.job \in DOMAIN store

HasArtifacts(r) == r.markdown_filename # None \/ r.image_filenames # <<>>

\* C1: a failed callback applied to a record that a completed callback (with
\* file_path and images) has filled leaves markdown_filename and
\* image_filenames as they were.
C1_TerminalStateProtection ==
    ( /\ CallbackApplied
      /\ last.payload.status = "failed"
      /\ last.pre.status = "completed"
      /\ last.pre.markdown_filename # None
      /\ last.pre.image_filenames # <<>> )
    => /\ Post.markdown_filename = last.pre.markdown_filename
       /\ Post.image_filenames = last.pre.image_filenames

\* C2: the stored status of a record only moves forward along
\* pending -> processing -> {completed, failed}; a completed or failed record
\* keeps its status under every later callback and sweep.
Rank(st) == CASE st = "pending" -> 0
              [] st = "processing" -> 1
              [] OTHER -> 2

C2_StatusForwardOnly ==
    [][ \A j \in DOMAIN store \cap DOMAIN store' :
          store'[j].status # store[j].status
            => Rank(store[j].status) < Rank(store'[j].status) ]_vars

\* C3: in every record, artifact fields and processing_error are never
\* populated together; artifacts only with status completed, processing_error
\* only with status failed.
C3_ArtifactsErrorExclusive ==
    \A j \in DOMAIN store :
        /\ ~(HasArtifacts(store[j]) /\ store[j].processing_error # None)
        /\ HasArtifacts(store[j]) => store[j].status = "completed"
        /\ store[j].processing_error # None => store[j].status = "failed"

\* A step in which the callback handler applies again, to the same record, the
\* completed payload it applied last.
SameCompletedCallbackAgain ==
    /\ last.op = "callback"
    /\ last.pre # NoBook
    /\ last.payload.status = "completed"
    /\ last.job \in DOMAIN store
    /\ ncb' = ncb + 1
    /\ last'.op = "callback"
    /\ last'.payload = last.payload
    /\ last'.pre # NoBook

\* C4 as stated: the record after the second application of a completed
\* payload is identical, in every stored field, to the record after the first.
C4_IdempotentAllFields ==
    [][ SameCompletedCallbackAgain => store'[last.job] = store[last.job] ]_vars

\* C4 as amended: the second application of a completed payload changes no
\* stored field except updated_at, which becomes the time of that application.
C4_IdempotentButUpdatedAt ==
    [][ SameCompletedCallbackAgain
          => store'[last.job] = [store[last.job] EXCEPT !.updated_at = now] ]_vars

\* A completed payload has been applied, at a later time, to a record that
\* already held what that payload sets.
C4_Witness ==
    /\ CallbackApplied
    /\ last.payload.status = "completed"
    /\ Truthy(last.payload.file_path)
    /\ last.pre.status = "completed"
    /\ last.pre.markdown_filename = Basename(last.payload.file_path)
    /\ last.pre.image_filenames = ImageFilenames(last.payload.images)
    /\ last.pre.updated_at < Post.updated_at
    /\ [Post EXCEPT !.updated_at = last.pre.updated_at] = last.pre

\* C5: every callback is answered with 200, and a callback whose job_id matches
\* no record leaves the store as it was.
C5_UnknownJobAcknowledged ==
    [][ ncb' = ncb + 1
          => /\ last'.response.code = 200
             /\ last'.payload.job_id \notin DOMAIN store => store' = store ]_vars

\* A callback for a job id without record has been answered while the store
\* held another record.
C5_Witness ==
    /\ last.op = "callback"
    /\ last.pre = NoBook
    /\ last.job \notin DOMAIN store
    /\ last.response.code = 200
    /\ DOMAIN store # {}

\* C6: after a completed callback (carrying a file path) is applied to an
\* existing record in any prior state, the record has status completed, the
\* artifact filenames of the callback, no processing_error, and an updated_at
\* not earlier than before.
C6_CompletedCallbackEffect ==
    ( /\ CallbackApplied
      /\ last.payload.status = "completed"
      /\ Truthy(last.payload.file_path) )
    => /\ Post.status = "completed"
       /\ Post.markdown_filename = Basename(last.payload.file_path)
       /\ Post.image_filenames = ImageFilenames(last.payload.images)
       /\ Post.processing_error = None
       /\ Post.updated_at >= last.pre.updated_at

\* C7: a callback whose status is neither completed nor failed, applied to an
\* existing record, leaves it failed, without artifacts, with an error message
\* that contains the status received; that status is not stored.
C7_UnexpectedStatusFails ==
    ( /\ CallbackApplied
      /\ last.payload.status \notin {"completed", "failed"} )
    => /\ Post.status = "failed"
       /\ Post.markdown_filename = None
       /\ Post.image_filenames = <<>>
       /\ \E i \in DOMAIN Post.processing_error :
              Post.processing_error[i] = last.payload.status

\* A callback with status processing has been applied to a completed record
\* that held artifacts.
C7_Witness ==
    /\ CallbackApplied
    /\ last.payload.status = "processing"
    /\ last.pre.status = "completed"
    /\ HasArtifacts(last.pre)
    /\ Post.status = "failed"

\* The timeout update found its record.
TimeoutApplied ==
    /\ last.op = "timeout"
    /\ last.pre # NoBook
    /\ last.job \in DOMAIN store

\* No sweep fails a processing record whose updated_at is not older than the
\* threshold: the write happens at or after the query, which is more than the
\* threshold after the record's updated_at.
NotBeforeTimeout ==
    (TimeoutApplied /\ last.pre.status = "processing")
    => last.pre.updated_at + STUCK_JOB_THRESHOLD_SECONDS < Post.updated_at

TimeoutSetsFailed ==
    TimeoutApplied
    => /\ Post.status = "failed"
       /\ Post.processing_error = TimeoutError

\* The loop of part 1 of the current sweep is over.
StuckLoopOver == rpc = "stuck" /\ rdone = Ids(rlist)

\* C8 as stated: every record that was processing with updated_at older than
\* the threshold when the sweep queried has been set to failed, with the
\* timeout message, when the sweep's first part is over; and no sweep fails a
\* processing record that is not older than the threshold.
C8_EveryStuckJobFailed ==
    /\ StuckLoopOver
         => \A j \in DOMAIN store :
              ~(store[j].status = "processing" /\ store[j].updated_at < rthreshold)
    /\ TimeoutSetsFailed
    /\ NotBeforeTimeout

\* C8 as amended: the same for the records the sweep's query returned, which
\* are at most to_list's length.
C8_ReturnedStuckJobsFailed ==
    /\ StuckLoopOver
         => \A d \in rlist :
              d.id \in DOMAIN store => store[d.id].status # "processing"
    /\ rpc = "stuck"
         => \A d \in rlist :
              d.doc.status = "processing" /\ d.doc.updated_at < rthreshold
    /\ TimeoutSetsFailed
    /\ NotBeforeTimeout

\* A sweep has set a stale processing record to failed.
C8_Witness ==
    /\ TimeoutApplied
    /\ last.pre.status = "processing"
    /\ Post.status = "failed"
    /\ Post.processing_error = TimeoutError

\* C9: a record that a sweep failed by the timeout rule is deleted no earlier
\* than one retention period after it was failed (so never by the same sweep).
C9_RetentionAfterTimeout ==
    ( /\ last.op = "delete"
      /\ last.pre.status = "failed"
      /\ last.pre.processing_error = TimeoutError )
    => last.pre.updated_at + OLD_RECORD_THRESHOLD_SECONDS <= now

PersistedBeforeDispatch ==
    \A j \in JobIds : exec[j].pc # "none" => upl[j].phase = "done"

\* C11: the record of a submission is saved before its document is
\* dispatched, so the callback of a job's execution is never answered "job_id
\* not found" for a record that was saved only afterwards.
C11_CallbackFindsSavedRecord ==
    \A j \in JobIds : ~(exec[j].answer = "not_found" /\ upl[j].phase = "done")

\* An upload that arrived while an execution was running has been answered
\* by the service only after that execution had ended.
AnsweredOnlyAfterExecution ==
    \A s \in JobIds :
        upl[s].phase \in {"answered", "done"}
          => \A k \in upl[s].during : exec[k].pc = "done"

\* C12: the answer {job_id, status: pending} to a submission is produced
\* while every execution that was running when the submission arrived is
\* still running.
C12_AnswerBeforeExecutionEnds ==
    [][ \A s \in JobIds :
          (upl[s].phase # "done" /\ upl'[s].phase = "done")
            => \A k \in upl[s].during : Running(exec[k]) ]_vars

\* C13: a submission that could not be started (service unreachable or
\* reporting failure, no job_id, file not staged, record not saved) is
\* answered with an error status and has no record in the store.
C13_FailedSubmissionLeavesNoRecord ==
    \A s \in JobIds :
        upl[s].phase = "error"
          => /\ upl[s].cause \in {"unreachable", "stage_failed", "success_false",
                                  "no_job_id", "save_failed"}
             /\ upl[s].code \in {500, 503}
             /\ s \notin DOMAIN store

\* A submission whose record could not be saved has been answered 500 after
\* its execution was scheduled, while another job's record is in the store.
C13_Witness ==
    \E s \in JobIds :
        /\ upl[s].phase = "error"
        /\ upl[s].cause = "save_failed"
        /\ upl[s].code = 500
        /\ exec[s].pc # "none"
        /\ s \notin DOMAIN store
        /\ DOMAIN store # {}

\* Every callback request an execution has issued carries completed or
\* failed, and no execution issues a second one.
CallbackStatusTerminal ==
    \A j \in JobIds :
        /\ exec[j].requests <= 1
        /\ exec[j].requests = 1
              => CallbackData(j, exec[j]).status \in {"completed", "failed"}

\* C14 as stated: every execution that has ended issued exactly one callback
\* request, carrying completed or failed.
C14_ExactlyOneCallback ==
    /\ CallbackStatusTerminal
    /\ \A j \in JobIds : exec[j].pc = "done" => exec[j].requests = 1

\* C14 as amended: with a callback URL configured every execution that has
\* ended issued exactly one callback request, delivered or not; without one
\* it issued none; a request carries completed or failed.
C14_ExactlyOneCallbackWithUrl ==
    /\ CallbackStatusTerminal
    /\ \A j \in JobIds :
         exec[j].pc = "done"
           => exec[j].requests = IF Truthy(BACKEND_CALLBACK_URL) THEN 1 ELSE 0

\* An execution has ended after its one callback request failed to be
\* delivered.
C14_Witness ==
    \E j \in JobIds :
        /\ exec[j].pc = "done"
        /\ exec[j].answer = "lost"
        /\ exec[j].requests = 1

\* C15: an exception at any stage of the try block leaves the execution with
\* a failed callback that carries the exception's message; a completed
\* callback, with file_path and images, is prepared only when no stage raised.
C15_ExceptionsBecomeFailedCallback ==
    \A j \in JobIds :
        exec[j].pc \in {"finally", "callback", "done"}
          => LET p == CallbackData(j, exec[j])
             IN  /\ exec[j].raised # "none"
                      => /\ p.status = "failed"
                         /\ p.processing_error = ExceptionMessage(exec[j].raised)
                         /\ p.message = <<"Processing failed: ">>
                                           \o ExceptionMessage(exec[j].raised)
                         /\ p.file_path = None
                         /\ p.images = <<>>
                 /\ exec[j].raised = "none"
                      => /\ p.status = "completed"
                         /\ p.file_path = MarkdownFilePath(exec[j].sanitized_title)
                         /\ p.images = exec[j].callback_images_data
                 /\ (exec[j].answer \in {"found", "not_found"} /\ last.op = "callback"
                       /\ last.job = j)
                      => last.payload = p

\* The failed callback of an execution whose write of the text file raised
\* has been applied to the job's record.
C15_Witness ==
    /\ CallbackApplied
    /\ last.job \in JobIds
    /\ exec[last.job].raised = "write"
    /\ exec[last.job].answer = "found"
    /\ Post.status = "failed"
    /\ Post.processing_error = ExceptionMessage("write")

C17_TimedOutBeforeDeleted ==
    ( /\ last.op = "delete"
      /\ last.job \in JobIds
      /\ exec[last.job].answer \in {"lost", "no_url"} )
    => /\ last.pre.status = "failed"
       /\ last.pre.processing_error = TimeoutError

\* --------------------------------------------- claims on the text pipeline
\* The chunker, called on its own, has returned.
ChunkerReturned == tpc = "returned" /\ backend = "none"

\* The chunks of the first loop, before any recombination.
InitialChunks == InitialSplit(SplitLines(md_text), <<>>, <<>>, max_chunk_size)

\* C18 as stated: for every text, max_chars >= 1 and max_pieces >= 0 the
\* chunker returns at most max_pieces pieces.
C18_AtMostMaxPieces ==
    ChunkerReturned => Len(chunks) <= max_chunks

\* C18 as amended: the same for max_pieces >= 1; with max_pieces = 0 the
\* chunker returns at most one piece.
C18_AtMostMaxPiecesFromOne ==
    ChunkerReturned =>
        Len(chunks) <= (IF max_chunks >= 1 THEN max_chunks ELSE 1)

\* The first loop made more chunks than max_chunks >= 1 allows and the
\* recombination returned exactly max_chunks of them.
C18_Witness ==
    /\ ChunkerReturned
    /\ max_chunks >= 1
    /\ Len(InitialChunks) > max_chunks
    /\ Len(chunks) = max_chunks

\* The lines of a text; the empty text has none.
TextLines(t) == IF t = <<>> THEN <<>> ELSE SplitLines(t)

\* The lines of all pieces, in order.
RECURSIVE LinesOf(_)
LinesOf(pieces) ==
    IF pieces = <<>> THEN <<>>
    ELSE TextLines(Head(pieces)) \o LinesOf(Tail(pieces))

\* C19: the lines of the returned pieces, taken in order, are the lines of the
\* input text, each once and unchanged, with or without recombination.
C19_PiecesCoverLines ==
    ChunkerReturned => LinesOf(chunks) = TextLines(md_text)

\* What a rewrite function appended for each chunk whose backend call raised
\* or returned nothing but fences and whitespace is the chunk itself.
RewriteFailSafe(b) ==
    backend = b
      => \A i \in 1..Len(reformatted_chunks) :
           ( /\ chunks[i] # <<>>
             /\ \/ outcomes[i].raised
                \/ StripFence(outcomes[i].raw) = <<>> )
           => reformatted_chunks[i] = chunks[i]

\* C20: for the Ollama and for the Gemini rewrite function, a non-empty chunk
\* whose backend call raises or returns empty output (after fence stripping
\* and trimming) contributes the original chunk to the joined output.
C20_RewriteFailSafe ==
    RewriteFailSafe("ollama") /\ RewriteFailSafe("gemini")

\* No line of the input text is longer than max_chunk_size.
LinesFit == \A i \in DOMAIN SplitLines(md_text) : Len(SplitLines(md_text)[i]) <= max_chunk_size

\* Every piece returned is at most max_chunk_size long.
PiecesFit == \A i \in DOMAIN chunks : Len(chunks[i]) <= max_chunk_size

\* C28 as stated: when no line of the text is longer than max_chars, every
\* piece the chunker returns is at most max_chars long, recombined or not
\* (taken here for max_pieces >= 1 only).
C28_PiecesWithinMaxChars ==
    (ChunkerReturned /\ LinesFit /\ max_chunks >= 1) => PiecesFit

\* C28 as amended: the same when the first loop made at most max_pieces
\* chunks, so that nothing was recombined.
C28_PiecesWithinMaxCharsUnlessRecombined ==
    (ChunkerReturned /\ LinesFit /\ Len(InitialChunks) <= max_chunks) => PiecesFit

\* Lines that fit were packed into more than one piece, one of them holding
\* two lines, and nothing was recombined.
C28_Witness ==
    /\ ChunkerReturned
    /\ LinesFit
    /\ Len(InitialChunks) <= max_chunks
    /\ Len(chunks) = 2
    /\ \E i \in DOMAIN chunks : Len(chunks[i]) = max_chunk_size /\ Len(SplitLines(chunks[i])) = 2

\* C25: a record that a callback has set to completed is neither marked
\* failed nor deleted by a sweep that selected it before that callback: at
\* the moment of a sweep's write the record is not completed.
C25_SweepWritesOnlyNonTerminal ==
    last.op \in {"timeout", "delete"} => last.pre.status # "completed"

\* C29: every write to a record sets updated_at to the time of the write; in
\* every step updated_at of a record does not decrease, and it is never
\* earlier than created_at.
C29_UpdatedAtMonotonic ==
    [][ \A j \in DOMAIN store' :
          /\ store'[j].updated_at >= store'[j].created_at
          /\ j \in DOMAIN store => store'[j].updated_at >= store[j].updated_at
          /\ (j \notin DOMAIN store \/ store'[j] # store[j])
                => store'[j].updated_at = now' ]_vars

\* A callback and a timeout update have each been applied to a record at a
\* time later than its previous write.
C29_Witness ==
    /\ last.op \in {"callback", "timeout"}
    /\ last.job \in DOMAIN store
    /\ last.pre.status # "absent"
    /\ last.pre.updated_at < store[last.job].updated_at
    /\ last.pre.created_at < store[last.job].updated_at

\* The fields a record is given at creation.
Identity(doc) ==
    <<doc.job_id, doc.title, doc.sanitized_title, doc.original_filename, doc.created_at>>

\* C30: while a record is in the store, callbacks and timeout updates leave
\* its _id, job_id, title, sanitized_title, original_filename and created_at
\* as they were set at creation.
C30_IdentityFieldsKept ==
    [][ \A j \in DOMAIN store \cap DOMAIN store' :
          /\ Identity(store'[j]) = Identity(store[j])
          /\ store'[j].job_id = j ]_vars

\* A timeout update or a callback has changed a record some time after its
\* creation, and the record still has the fields of its creation.
C30_Witness ==
    /\ last.op \in {"timeout", "callback"}
    /\ last.job \in DOMAIN store
    /\ last.pre.status \in {"processing", "pending"}
    /\ store[last.job].updated_at > last.pre.created_at
    /\ store[last.job].status = "failed"
    /\ store[last.job].original_filename = "b.pdf"
    /\ Identity(store[last.job]) =
         Identity(NewBook(last.job, store[last.job].original_filename, "pending",
                          store[last.job].created_at))

\* ------------------------------------- claims on titles and image paths
\* An internal path of the image list occurs in a text.
Occurs(old, t) ==
    \E i \in 1..(Len(t) - Len(old) + 1) : SubSeq(t, i, i + Len(old) - 1) = old

\* C21: after the path rewriting no internal path of the image list remains
\* in the text, and rewriting the result again leaves it as it is.
C21_RewritingIdempotent ==
    npc = "rewrite_done" =>
        /\ \A i \in DOMAIN output_images_info :
              ( /\ Truthy(output_images_info[i].md_path)
                /\ Truthy(output_images_info[i].save_name) )
              => ~Occurs(output_images_info[i].md_path, current_md_content)
        /\ RewriteImagePaths(current_md_content, output_images_info) = current_md_content

\* Whitespace in a title.
HasWhitespace(t) == \E i \in DOMAIN t : t[i] \in {" ", "\t"}

\* C22: the sanitized title is not empty and has no whitespace, for the
\* backend's sanitize_filename and for the service's, which names the text
\* file.
C22_SanitizedTitleUsable ==
    /\ npc = "backend_done" =>
          sanitized_book_title # <<>> /\ ~HasWhitespace(sanitized_book_title)
    /\ npc = "service_done" =>
          sanitized_title # <<>> /\ ~HasWhitespace(sanitized_title)

\* ------------------------------------------------ claims on stored files
\* The files a finished execution may leave: its final text, named from the
\* sanitized title, and image files.
DurableFiles(e) ==
    {MarkdownFilePath(e.sanitized_title)}
      \cup { f \in files : SubSeq(f, 1, Len(IMAGES_PATH)) = IMAGES_PATH }

\* C23: when every execution started so far is over, the storage holds
\* nothing but the final text files and the image files of those executions
\* (and no staged upload of theirs).
C23_OnlyTextAndImagesRemain ==
    (\A j \in JobIds : exec[j].pc \in {"none", "done"})
      => files \subseteq UNION { DurableFiles(exec[j]) : j \in { k \in JobIds : exec[k].pc = "done" } }

\* A step of the delete loop of the cleanup task: one iteration.
DeleteStep == rpc = "delete" /\ (rpc' # "delete" \/ rdone' # rdone)

\* The document of the iteration, as the query returned it.
DeletedDoc == (CHOOSE d \in rlist : d.id = last'.job).doc

\* C24: in an iteration of the delete loop, a file removal that fails keeps
\* neither the other files of the record from being removed, nor the record
\* from being deleted, nor the loop from going on to the other records the
\* query returned.
C24_FileErrorsDoNotAbort ==
    [][ DeleteStep =>
          /\ last'.job \notin DOMAIN store'
          /\ files' = files \ (last'.response.attempted \ last'.response.failed)
          /\ Ids(rlist) # rdone \cup {last'.job}
                => /\ rpc' = "delete"
                   /\ rlist' = rlist
                   /\ rdone' = rdone \cup {last'.job} ]_vars

\* The removal of one file of a record failed; its other file is gone, the
\* record is deleted and the loop still has another record to delete.
C24_Witness ==
    /\ last.op = "delete"
    /\ last.response.failed # {}
    /\ last.response.attempted \ last.response.failed # {}
    /\ (last.response.attempted \ last.response.failed) \cap files = {}
    /\ last.job \notin DOMAIN store
    /\ rpc = "delete"
    /\ \E d \in rlist : d.id \notin rdone /\ d.id \in DOMAIN store

\* C26: a status poll for a job with a record reports the stored status, a
\* file reference and images only when the record is completed and the
\* stored error only when it is failed; a poll for a job without record is
\* answered not-found.
C26_PollReportsStoredStatus ==
    last.op = "status" =>
        IF last.pre = NoBook
        THEN last.response.code = 404
        ELSE /\ last.response.code = 200
             /\ last.response.status = last.pre.status
             /\ (last.response.file_path # None \/ last.response.images # <<>>)
                   => last.pre.status = "completed"
             /\ (Truthy(last.pre.processing_error)
                    /\ last.response.message = last.pre.processing_error)
                   => last.pre.status = "failed"

\* C27 as stated: a sweep deletes a record only if its query found it
\* pending or failed and older than the retention threshold, and no file
\* named in that record is left when the record is deleted; no completed or
\* processing record is in the list of a delete query.
C27_DeletesFilesThenRecord ==
    [][ /\ rpc = "delete" =>
              \A d \in rlist : d.doc.status \notin {"completed", "processing"}
        /\ DeleteStep =>
              /\ DeletedDoc.status \in {"pending", "failed"}
              /\ DeletedDoc.created_at < rthreshold
              /\ DeleteTargets(DeletedDoc, MARKDOWN_PATH, IMAGES_PATH) \cap files' = {} ]_vars

\* C27 as amended: the same, with the files named in the record left only
\* when their removal failed, and with the backend's directory settings
\* deciding which files the sweep removes.
C27_AttemptsFilesThenRecord ==
    [][ /\ rpc = "delete" =>
              \A d \in rlist : d.doc.status \notin {"completed", "processing"}
        /\ DeleteStep =>
              /\ DeletedDoc.status \in {"pending", "failed"}
              /\ DeletedDoc.created_at < rthreshold
              /\ last'.job \notin DOMAIN store'
              /\ DeleteTargets(DeletedDoc, CONTAINER_MARKDOWN_PATH, CONTAINER_IMAGES_PATH)
                    \cap files' = last'.response.failed ]_vars

\* A sweep has deleted a failed record that named a text file and an image
\* file, and both files are gone.
C27_Witness ==
    /\ last.op = "delete"
    /\ last.pre.status = "failed"
    /\ Truthy(last.pre.markdown_filename)
    /\ last.pre.image_filenames # <<>>
    /\ Cardinality(last.response.attempted) = 2
    /\ last.response.failed = {}
    /\ last.response.attempted \cap files = {}
    /\ last.job \notin DOMAIN store

\* A status poll that returned: the last operation becomes the poll.
PollStep == last'.op = "status" /\ last' # last

\* C31: a status poll, answered with a result or with not-found, leaves the
\* job store and the stored files as they were, and with them everything a
\* later callback or sweep reads: the clock, the callback count, the cleanup
\* task's position and list, the directory settings.
C31_PollChangesNothing ==
    [][ PollStep =>
          /\ store' = store
          /\ files' = files
          /\ UNCHANGED <<now, nextJob, ncb, rpc, rlist, rdone, rthreshold,
                         CONTAINER_MARKDOWN_PATH, CONTAINER_IMAGES_PATH>> ]_vars

\* A poll answered for a record stored as failed whose text file exists (the
\* answer says completed), while a sweep holds that record in its delete
\* list and has not reached it yet.
C31_Witness ==
    /\ last.op = "status"
    /\ last.response.code = 200
    /\ last.pre.status = "failed"
    /\ last.response.status = "completed"
    /\ last.job \in DOMAIN store
    /\ store[last.job] = last.pre
    /\ rpc = "delete"
    /\ \E d \in rlist : d.id = last.job /\ d.id \notin rdone

\* C32: after a callback with status completed and no file_path has been
\* applied to an existing record, the record is failed, its error is the
\* message about the missing file path, and it names no text file and no
\* image, whatever images the callback carried and whatever the record named
\* before.
C32_CompletedWithoutPathLeavesNoArtifacts ==
    ( /\ CallbackApplied
      /\ last.payload.status = "completed"
      /\ ~Truthy(last.payload.file_path) )
    => /\ Post.status = "failed"
       /\ Post.processing_error = MissingFilePathError
       /\ Post.markdown_filename = None
       /\ Post.image_filenames = <<>>

\* C33: with the conversion service of this repository, no record is ever
\* stored as processing: the record is created with the status the service
\* answers (pending), the callback of an execution writes completed or
\* failed, and a callback with any other status string, applied to any
\* record of a reachable store, writes failed; so the query for stuck jobs
\* matches no record and a sweep holds an empty list after it.
C33_NeverProcessing ==
    /\ \A j \in DOMAIN store : store[j].status \in {"pending", "completed", "failed"}
    /\ \A p \in Payloads :
          p.job_id \in DOMAIN store
            => update_book(store, p.job_id, CallbackUpdateData(p, now), now)[p.job_id].status
                  \in {"completed", "failed"}
    /\ StuckJobsAnyAge(store, now) = {}
    /\ StuckJobs(store, now) = {}
    /\ rpc = "stuck" => rlist = {}

\* The stuck-job query has run and returned nothing while the store held a
\* pending record not updated for longer than the timeout, next to a record
\* an execution's callback has completed.
C33_Witness ==
    /\ rpc = "stuck"
    /\ rlist = {}
    /\ \E j \in DOMAIN store :
          /\ store[j].status = "pending"
          /\ store[j].updated_at < now - STUCK_JOB_THRESHOLD_SECONDS
    /\ \E j \in DOMAIN store :
          /\ store[j].status = "completed"
          /\ exec[j].answer = "found"

\* The try block of job k's execution has run to its end in this step: it
\* has written its final text to the path it will report.
WroteText(k) ==
    /\ exec[k].pc = "try"
    /\ exec'[k].pc = "finally"
    /\ exec'[k].callback_status = "completed"

\* The text file a record refers to, as the backend resolves it.
ReferencedTextPath(doc) == CONTAINER_MARKDOWN_PATH \o doc.markdown_filename

\* C34: the execution of one job never writes its text to the path that the
\* completed record of another job refers to, also when both titles
\* sanitize to the same string.
C34_TextFileOfOwnExecution ==
    [][ \A k \in JobIds :
          WroteText(k) =>
            \A j \in DOMAIN store \ {k} :
               ~( /\ store[j].status = "completed"
                  /\ Truthy(store[j].markdown_filename)
                  /\ ReferencedTextPath(store[j]) = exec'[k].callback_file_path ) ]_vars

\* The text and image files an execution has written as its result.
ExecutionArtifacts(e) ==
    IF e.callback_status = "completed"
    THEN {e.callback_file_path} \cup ImageFiles(e.callback_images_data)
    ELSE {}

\* The files some record of the store names.
ReferencedFiles ==
    UNION { DeleteTargets(store[k], MARKDOWN_PATH, IMAGES_PATH) : k \in DOMAIN store }

\* The record of job j was saved and the cleanup task has deleted it.
RecordReclaimed(j) == upl[j].phase = "done" /\ j \notin DOMAIN store

\* C35: once the cleanup task has deleted a job's record, no text or image
\* file that the job's execution wrote, before or after the deletion, is in
\* the storage without a record that names it.
C35_NoArtifactsAfterReclaim ==
    \A j \in JobIds :
        RecordReclaimed(j)
          => (ExecutionArtifacts(exec[j]) \cap files) \subseteq ReferencedFiles

\* C36: a submission that upload_pdf answered with an error has no
\* execution: none was scheduled by the conversion service, none runs, none
\* has sent a callback or written a file.
C36_ErrorMeansNoExecution ==
    \A s \in JobIds :
        upl[s].phase = "error"
          => /\ exec[s].pc = "none"
             /\ exec[s].requests = 0

\* The clock of the model can pass the retention age of the record.
CanAgeOut(doc) == doc.created_at + OLD_RECORD_THRESHOLD_SECONDS < MaxTime

\* C37: with the cleanup task running and the store available in the end, a
\* pending or failed record does not stay for ever: it is deleted by a
\* sweep, unless it is set to completed; a sweep that an exception ended does
\* not keep later sweeps from running.
C37_EventuallyReclaimed ==
    \A j \in JobIds :
        ( /\ j \in DOMAIN store
          /\ store[j].status \in {"pending", "failed"}
          /\ CanAgeOut(store[j]) )
        ~> ( j \notin DOMAIN store \/ store[j].status = "completed" )

\* A sweep has deleted a pending record after an earlier sweep was ended by
\* an exception.
C37_Witness ==
    /\ nraised > 0
    /\ last.op = "delete"
    /\ last.pre.status = "pending"
    /\ last.job \notin DOMAIN store

\* An iteration of one of the two loops of a sweep.
SweepLoopStep == (rpc = "stuck" /\ rdone' # rdone) \/ DeleteStep

ReadInput(j) ==
    /\ exec[j].pc = "try"
    /\ exec'[j].pc = "finally"
    /\ exec'[j].raised # "read"

\* The finally block of job j's execution runs in this step.
CleansUp(j) == exec[j].pc = "finally" /\ exec'[j].pc = "callback"

\* C39: an execution reads the bytes uploaded for its own job, and the file
\* its finally block removes, if any, holds the bytes of its own job, also
\* when another submission with the same file name was staged before the
\* execution read its input.
C39_OwnStagedInput ==
    [][ \A j \in JobIds :
          /\ ReadInput(j) => tmp[exec[j].temp_pdf_path] = j
          /\ (CleansUp(j) /\ exec[j].temp_pdf_path \in DOMAIN tmp)
                => tmp[exec[j].temp_pdf_path] = j ]_vars
====
